---- MODULE Spec2Model ----
(***************************************************************************)
(* buttersink: the transfer driver (main) of buttersink.py, the sink       *)
(* constructor parseSink, and the store / planner operations main calls.   *)
(*                                                                         *)
(* A volume is identified by its uuid, a number 1..MaxVol.  A diff is a    *)
(* record [from, to, size]; from = None is a full send.  The two stores    *)
(* named on the command line are their volume sets srcVols (args.source)   *)
(* and dstVols (args.dest); edges is the set of diffs the store of         *)
(* args.source can produce.                                                *)
(***************************************************************************)
EXTENDS Integers, Sequences, FiniteSets

VARIABLES
    args,        \* the parsed command line (argparse namespace)
    stderrTty,   \* sys.stderr.isatty()
    srcVols,     \* volumes held by the store of args.source
    dstVols,     \* volumes held by the store of args.dest
    edges,       \* diffs the store of args.source offers
    pc,          \* position of main
    round,       \* main's local `round`
    source,      \* main's local `source` (a store object, or NoStore)
    dest,        \* main's local `dest`
    held,        \* stores entered by `with` and not yet left, outermost first
    events,      \* history: every `with` entered and left
    volumes,     \* main's local `volumes` after exclusion
    destVolumes, \* the destination listing this round's plan was made from
    best,        \* what best.iterDiffs() yields, up to its first item
    chosen,      \* the diff about to be sent
    exitStatus,  \* value main returned
    xfers,       \* history: every started sendTo
    log          \* history: counters and flags of what the run did

vars == <<args, stderrTty, srcVols, dstVols, edges, pc, round, source, dest,
          held, events, volumes, destVolumes, best, chosen, exitStatus, xfers, log>>

(***************************************************************************)
(* Bounds of the model.                                                    *)
(***************************************************************************)
MaxVol == 2
MaxRound == 3
FullSize == 3
IncSize == 2

(***************************************************************************)
(* Values.                                                                 *)
(***************************************************************************)
None == 0
Vols == 1..MaxVol
NoStore == [uri |-> "none", mode |-> "-"]
NoDiff == [from |-> None, to |-> None, size |-> 0]

\* Volume.otime: creation time; two distinct volumes may share one.
otime(v) == v - (v \div 3)

\* Store.getPaths: the paths of a volume in the store; a path is a string,
\* here a sequence of letters.
getPaths(vol) == {<<vol>>} \cup (IF vol % 2 = 0 THEN {<<0, vol>>} ELSE {})

\* re.match(pattern, path) for a literal pattern: the pattern matches at the
\* start of the path.
reMatch(pattern, path) ==
    /\ Len(pattern) <= Len(path)
    /\ \A i \in 1..Len(pattern) : pattern[i] = path[i]

\* The values of --exclude the model draws from (<<>> is no --exclude).
ExcludeArgs == {<<>>, <<<<1>>>>, <<<<0>>, <<3>>>>}

\* Size the estimator attributes to a diff.
DiffSize(from, to) == IF from = None THEN FullSize ELSE IncSize

Diff(from, to) == [from |-> from, to |-> to, size |-> DiffSize(from, to)]

\* Every diff a store holding the volumes `held_` could offer.
AllEdges(held_) ==
    {Diff(None, v) : v \in held_}
        \cup {Diff(p, v) : <<p, v>> \in {pv \in held_ \X held_ : pv[1] # pv[2]}}

Min(S) == CHOOSE x \in S : \A y \in S : x <= y

(***************************************************************************)
(* parseSink and the exclusion filter.                                     *)
(***************************************************************************)
NoUri == "none"

\* parseSink(uri, isDest, willDelete, dryrun): the store object, opened in
\* mode 'r' (not a destination), 'w' (destination, --delete) or 'a'.
parseSink(uri, isDest, willDelete) ==
    IF uri = NoUri THEN NoStore
    ELSE [uri |-> uri,
          mode |-> IF ~isDest THEN "r" ELSE IF willDelete THEN "w" ELSE "a"]

\* listVolumes() of a store object.
listVolumes(store) == IF store.uri = "src" THEN srcVols ELSE dstVols

\* Faulty variant: a volume is excluded only when every pattern matches one
\* of its paths.
is_excludedByAll(vol) ==
    \A i \in 1..Len(args.exclude) :
        \E path \in getPaths(vol) : reMatch(args.exclude[i], path)

\* is_excluded(vol): some path of vol matches some --exclude pattern.
is_excluded(vol) ==
    \E path \in getPaths(vol) :
        \E i \in 1..Len(args.exclude) : reMatch(args.exclude[i], path)

\* volumes = [vol for vol in volumes if not is_excluded(vol)]
filterVolumes(vs) ==
    IF args.exclude # <<>> THEN {vol \in vs : ~is_excluded(vol)} ELSE vs

\* useQuota = args.estimate < 2
useQuota == args.estimate < 2

(***************************************************************************)
(* The branch without planner (estimate >= 2).                             *)
(***************************************************************************)
\* Faulty variant: the missing volumes taken from the common ones.
missingVolumesOfCommon(vs, dv) == (vs \cap dv) \ dv

\* Faulty variant: the operands of the set difference swapped.
missingVolumesSwapped(vs, dv) == dv \ vs

\* Faulty variant: the latest volume of the source, common or not.
latestSourceVolume(common) ==
    IF volumes' = {} THEN {None}
    ELSE {v \in volumes' : \A w \in volumes' : otime(w) <= otime(v)}

commonVolumes(vs, dv) == vs \cap dv

missingVolumes(vs, dv) == vs \ dv

\* commonVolumes.sort(key=otime); latestCommonVolume = commonVolumes[-1], or
\* None without common volume.  The sort is stable over a list built from a
\* set, so among volumes of equal otime any may come last.
latestCommonVolume(common) ==
    IF common = {} THEN {None}
    ELSE {v \in common : \A w \in common : otime(w) <= otime(v)}

\* Store.getEdges(fromVol): the diffs the store offers from fromVol (the
\* full sends when fromVol is None).
getEdges(fromVol) == {e \in edges : e.from = fromVol}

\* Faulty variant: the diffs are not filtered by their target.
missingDiffsUnfiltered(diffs, missing) == diffs

\* missingDiffs = [diff for diff in diffs if diff.toUUID in missingVolumeUUIDs]
missingDiffs(diffs, missing) == {d \in diffs : d.to \in missing}

\* Faulty variant: the last diff of the sorted list is taken, missingDiffs[-1].
newestMissingDiff(md) == {d \in md : \A e \in md : otime(e.to) <= otime(d.to)}

\* missingDiffs.sort(key=toVol.otime); oldestMissingDiff = missingDiffs[0]
oldestMissingDiff(md) == {d \in md : \A e \in md : otime(d.to) <= otime(e.to)}

(***************************************************************************)
(* The planner, BestDiffs (estimate < 2).                                  *)
(***************************************************************************)
Infinity == MaxVol * (FullSize + IncSize) + 1

\* Order of emission and relaxation: (otime, uuid).
Before(a, b) == otime(a) < otime(b) \/ (otime(a) = otime(b) /\ a < b)

\* Edges the planner may use in a graph over `nodes`.
UsableEdges(nodes) ==
    {e \in edges : e.to \in nodes /\ (e.from = None \/ e.from \in nodes)}

\* The simple paths of the graph over `nodes`: sequences of distinct nodes.
Paths(nodes) ==
    {p \in UNION {[1..n -> nodes] : n \in 1..Cardinality(nodes)} :
        \A i, j \in DOMAIN p : i # j => p[i] # p[j]}

RECURSIVE ChainCost(_, _, _)
\* The summed size of the incremental diffs along p[1..i], Infinity when
\* one of them is not offered.
ChainCost(p, i, E) ==
    IF i = 1 THEN 0
    ELSE LET e == {x \in E : x.from = p[i - 1] /\ x.to = p[i]}
             rest == ChainCost(p, i - 1, E)
         IN IF e = {} \/ rest >= Infinity THEN Infinity
            ELSE rest + (CHOOSE x \in e : TRUE).size

\* The cost of materialising the last volume of p along p: p starts at a
\* volume kept on the destination (cost 0) or with a full send.
PathCost(p, dv, E) ==
    LET full == {x \in E : x.from = None /\ x.to = p[1]}
        start == IF p[1] \in dv THEN 0
                 ELSE IF full # {} THEN (CHOOSE x \in full : TRUE).size
                 ELSE Infinity
        chain == ChainCost(p, Len(p), E)
    IN IF start >= Infinity \/ chain >= Infinity THEN Infinity
       ELSE start + chain

\* BestDiffs.analyze: the cost of every node of the graph over the source
\* volumes vs and the destination volumes dv; 0 for a volume on the
\* destination (keep), Infinity for an unreachable one.
analyze(vs, dv) ==
    LET E == UsableEdges(vs \cup dv)
        paths == Paths(vs \cup dv)
    IN [v \in vs \cup dv |->
           IF v \in dv THEN 0
           ELSE Min({Infinity}
                    \cup {PathCost(p, dv, E) : p \in {q \in paths : q[Len(q)] = v}})]

\* The cheapest paths to a reachable volume v.
BestPaths(v, vs, dv) ==
    LET E == UsableEdges(vs \cup dv)
        cost == analyze(vs, dv)[v]
    IN {p \in Paths(vs \cup dv) : p[Len(p)] = v /\ PathCost(p, dv, E) = cost}

\* The diff chosen for a reachable volume v not on the destination: of the
\* cheapest, an incremental before a full send, then the shorter chain, then
\* the smaller parent uuid.
Previous(v, vs, dv) ==
    LET inc == {p \in BestPaths(v, vs, dv) : Len(p) > 1}
        p == CHOOSE q \in inc :
                \A r \in inc :
                    \/ Len(q) < Len(r)
                    \/ Len(q) = Len(r) /\ q[Len(q) - 1] <= r[Len(r) - 1]
    IN IF inc = {} THEN Diff(None, v) ELSE Diff(p[Len(p) - 1], v)

\* Source volumes the plan does not keep.
Pending(vs, dv) == vs \ dv

\* Node.diff: the chosen diff, NoDiff (None) for an unreachable volume.
NodeDiff(v, vs, dv) ==
    IF analyze(vs, dv)[v] >= Infinity THEN NoDiff ELSE Previous(v, vs, dv)

\* best.iterDiffs() up to its first item: <<>> when the plan holds no diff
\* (next raises StopIteration), else the diff of the first node in
\* topological order, ties by (otime, uuid).
iterDiffs(vs, dv) ==
    LET pend == Pending(vs, dv)
        nodes == {[vol |-> v, diff |-> NodeDiff(v, vs, dv)] : v \in pend}
        roots == {n \in nodes : n.diff.from \notin pend}
        first == CHOOSE n \in roots :
                    \A m \in roots : n = m \/ Before(n.vol, m.vol)
    IN IF pend = {} THEN <<>> ELSE <<first.diff>>

\* Store.deleteUnused: the destination volumes the prune removes, those the
\* plan over vs neither keeps nor needs as an ancestor.
unusedVolumes(vs, dv) == dv \ vs

(***************************************************************************)
(* main.                                                                   *)
(***************************************************************************)
TypeOK ==
    /\ args \in [source : {NoUri, "src"}, dest : {"dst"}, delete : BOOLEAN,
                 dry_run : BOOLEAN, estimate : 0..2, exclude : ExcludeArgs]
    /\ stderrTty \in BOOLEAN
    /\ srcVols \subseteq Vols /\ dstVols \subseteq Vols
    /\ edges \subseteq AllEdges(srcVols)
    /\ pc \in {"loop", "withSource", "withDest", "pick", "send", "done"}
    /\ round \in 0..MaxRound
    /\ exitStatus \in {-1, 0, 1}

Init ==
    /\ args \in [source : {NoUri, "src"}, dest : {"dst"}, delete : BOOLEAN,
                 dry_run : BOOLEAN, estimate : 0..2, exclude : ExcludeArgs]
    /\ stderrTty \in BOOLEAN
    /\ dstVols \in SUBSET Vols
    /\ srcVols \in IF args.source = NoUri THEN {{}} ELSE SUBSET Vols
    /\ edges \in SUBSET AllEdges(srcVols)
    /\ pc = "loop"
    /\ round = 0
    /\ source = NoStore
    /\ dest = NoStore
    /\ held = <<>>
    /\ events = <<>>
    /\ volumes = {}
    /\ destVolumes = {}
    /\ best = <<>>
    /\ chosen = NoDiff
    /\ exitStatus = -1
    /\ xfers = <<>>
    /\ log = [dst0 |-> dstVols, listedAfter |-> 0, pruned |-> 0,
              pruneFailed |-> FALSE, sendFailed |-> 0, sendError |-> "none",
              missingDiff |-> FALSE, destructive |-> {}]

\* store.__enter__ of a `with` statement, as an event of the run.
Enter(store) == [ev |-> "enter", uri |-> store.uri, round |-> round]

\* Faulty variant: the stores are released in the order they were acquired.
WithExitOuterFirst(stack) ==
    [i \in 1..Len(stack) |->
        [ev |-> "exit", uri |-> stack[i].uri, round |-> round]]

\* Leaving nested `with` blocks: store.__exit__ of every store of the stack,
\* innermost first.
WithExit(stack) ==
    [i \in 1..Len(stack) |->
        [ev |-> "exit", uri |-> stack[Len(stack) + 1 - i].uri, round |-> round]]

\* `return status`, or an exception reaching main's handler (return 1):
\* every `with` block is left on the way out.
Return(status) ==
    /\ pc' = "done"
    /\ exitStatus' = status
    /\ held' = <<>>
    /\ events' = events \o WithExit(held)

\* `with store:` entered and left again by a return or an exception raised
\* in its body.
EnterAndReturn(store, status) ==
    /\ pc' = "done"
    /\ exitStatus' = status
    /\ held' = <<>>
    /\ events' = events \o <<Enter(store)>> \o WithExit(Append(held, store))

\* except Exception as error: ... return 1
HandleException == Return(1)

\* Top of the loop: round += 1, both parseSink calls, the swap of a lone
\* <dst> into `source`, and the showProgress assignments.
BeginRound ==
    /\ pc = "loop"
    /\ round < MaxRound
    /\ round' = round + 1
    /\ LET src == parseSink(args.source, FALSE, args.delete)
           dst == parseSink(args.dest, src # NoStore, args.delete)
       IN /\ source' = IF src = NoStore THEN dst ELSE src
          /\ dest' = IF src = NoStore THEN NoStore ELSE dst
          /\ IF ~stderrTty /\ src = NoStore
             THEN \* dest.showProgress = False on dest = None
                  HandleException
             ELSE pc' = "withSource" /\ UNCHANGED <<exitStatus, held, events>>
    /\ UNCHANGED <<args, stderrTty, srcVols, dstVols, edges, volumes,
                   destVolumes, best, chosen, xfers, log>>

\* Faulty variant: the source is not tested for emptiness.
EnterSourceUnchecked ==
    /\ pc = "withSource"
    /\ IF dest = NoStore
       THEN /\ EnterAndReturn(source, 0)
            /\ log' = IF args.delete
                      THEN [log EXCEPT !.destructive =
                               @ \cup {[op |-> "deletePartials",
                                        mode |-> source.mode]}]
                      ELSE log
       ELSE /\ pc' = "withDest"
            /\ held' = <<source>>
            /\ events' = Append(events, Enter(source))
            /\ UNCHANGED <<exitStatus, log>>
    /\ UNCHANGED <<args, stderrTty, srcVols, dstVols, edges, round, source,
                   dest, volumes, destVolumes, best, chosen, xfers>>

\* with source: rescanSizes, the emptiness test of the source, and the
\* list-only branch; every return leaves the `with` block.
EnterSource ==
    /\ pc = "withSource"
    /\ IF listVolumes(source) = {}
       THEN EnterAndReturn(source, 1) /\ UNCHANGED log
       ELSE IF dest = NoStore
       THEN /\ EnterAndReturn(source, 0)
            /\ log' = IF args.delete
                      THEN [log EXCEPT !.destructive =
                               @ \cup {[op |-> "deletePartials",
                                        mode |-> source.mode]}]
                      ELSE log
       ELSE /\ pc' = "withDest"
            /\ held' = <<source>>
            /\ events' = Append(events, Enter(source))
            /\ UNCHANGED <<exitStatus, log>>
    /\ UNCHANGED <<args, stderrTty, srcVols, dstVols, edges, round, source,
                   dest, volumes, destVolumes, best, chosen, xfers>>

\* source.deletePartials() raising in the list-only branch (such as the
\* store refusing the operation in the mode it was opened in).
DeletePartialsRaise ==
    /\ pc = "withSource"
    /\ listVolumes(source) # {}
    /\ dest = NoStore
    /\ args.delete
    /\ log' = [log EXCEPT !.destructive =
                  @ \cup {[op |-> "deletePartials", mode |-> source.mode]}]
    /\ EnterAndReturn(source, 1)
    /\ UNCHANGED <<args, stderrTty, srcVols, dstVols, edges, round, source,
                   dest, volumes, destVolumes, best, chosen, xfers>>

\* Faulty variant: the plan is made without the destination's volumes.
PlanBestIgnoringDest ==
    /\ pc = "withDest"
    /\ useQuota
    /\ held' = Append(held, dest)
    /\ events' = Append(events, Enter(dest))
    /\ volumes' = filterVolumes(listVolumes(source))
    /\ destVolumes' = listVolumes(dest)
    /\ best' = iterDiffs(volumes', {})
    /\ log' = [log EXCEPT !.listedAfter = Len(xfers)]
    /\ pc' = "pick"
    /\ UNCHANGED <<args, stderrTty, srcVols, dstVols, edges, round, source,
                   dest, chosen, exitStatus, xfers>>

\* Faulty variant: the destination is used without `with dest:`.
PlanBestWithoutWith ==
    /\ pc = "withDest"
    /\ useQuota
    /\ volumes' = filterVolumes(listVolumes(source))
    /\ destVolumes' = listVolumes(dest)
    /\ best' = iterDiffs(volumes', destVolumes')
    /\ log' = [log EXCEPT !.listedAfter = Len(xfers)]
    /\ pc' = "pick"
    /\ UNCHANGED <<args, stderrTty, srcVols, dstVols, edges, round, source,
                   dest, held, events, chosen, exitStatus, xfers>>

\* with dest, useQuota: volumes are listed and filtered, BestDiffs analyzes
\* both stores.
PlanBest ==
    /\ pc = "withDest"
    /\ useQuota
    /\ held' = Append(held, dest)
    /\ events' = Append(events, Enter(dest))
    /\ volumes' = filterVolumes(listVolumes(source))
    /\ destVolumes' = listVolumes(dest)
    /\ best' = iterDiffs(volumes', destVolumes')
    /\ log' = [log EXCEPT !.listedAfter = Len(xfers)]
    /\ pc' = "pick"
    /\ UNCHANGED <<args, stderrTty, srcVols, dstVols, edges, round, source,
                   dest, chosen, exitStatus, xfers>>

\* with dest, not useQuota: the diff from the latest common volume to the oldest
\* missing one; break when nothing is missing; missingDiffs[0] raises
\* IndexError when no such diff exists.
PlanLatest ==
    /\ pc = "withDest"
    /\ ~useQuota
    /\ volumes' = filterVolumes(listVolumes(source))
    /\ destVolumes' = listVolumes(dest)
    /\ LET common == commonVolumes(volumes', destVolumes')
           missing == missingVolumes(volumes', destVolumes')
       IN IF missing = {}
          THEN EnterAndReturn(dest, 0) /\ UNCHANGED chosen
          ELSE \E latest \in latestCommonVolume(common) :
                  LET md == missingDiffs(getEdges(latest), missing)
                  IN IF md = {}
                     THEN EnterAndReturn(dest, 1) /\ UNCHANGED chosen
                     ELSE /\ chosen' \in oldestMissingDiff(md)
                          /\ pc' = "send"
                          /\ held' = Append(held, dest)
                          /\ events' = Append(events, Enter(dest))
                          /\ UNCHANGED exitStatus
    /\ log' = [log EXCEPT !.listedAfter = Len(xfers)]
    /\ UNCHANGED <<args, stderrTty, srcVols, dstVols, edges, round, source,
                   dest, best, xfers>>

\* dest.deleteUnused() returning normally.
deleteUnused ==
    /\ dstVols' = IF args.dry_run THEN dstVols
                  ELSE dstVols \ unusedVolumes(volumes, destVolumes)
    /\ log' = [log EXCEPT !.pruned = @ + 1,
                          !.destructive = @ \cup {[op |-> "deleteUnused",
                                                   mode |-> dest.mode]}]

\* Faulty variant: a missing diff is reported and the loop is left as if the plan
\* were empty.
PickBreaksOnMissing ==
    /\ pc = "pick"
    /\ IF best = <<>>
       THEN /\ IF args.delete THEN deleteUnused
               ELSE UNCHANGED <<dstVols, log>>
            /\ Return(0)
            /\ UNCHANGED chosen
       ELSE LET diff == best[1]
            IN IF diff = NoDiff
               THEN /\ Return(0)
                    /\ log' = [log EXCEPT !.missingDiff = TRUE]
                    /\ UNCHANGED <<dstVols, chosen>>
               ELSE /\ chosen' = diff
                    /\ pc' = "send"
                    /\ UNCHANGED <<dstVols, exitStatus, held, events, log>>
    /\ UNCHANGED <<args, stderrTty, srcVols, edges, round, source, dest,
                   volumes, destVolumes, best, xfers>>

\* Faulty variant: the prune is done before the diff is taken, in every round.
PickPrunesFirst ==
    /\ pc = "pick"
    /\ IF args.delete THEN deleteUnused ELSE UNCHANGED <<dstVols, log>>
    /\ IF best = <<>>
       THEN Return(0) /\ UNCHANGED chosen
       ELSE LET diff == best[1]
            IN IF diff = NoDiff
               THEN HandleException /\ UNCHANGED chosen
               ELSE /\ chosen' = diff
                    /\ pc' = "send"
                    /\ UNCHANGED <<exitStatus, held, events>>
    /\ UNCHANGED <<args, stderrTty, srcVols, edges, round, source, dest,
                   volumes, destVolumes, best, xfers>>

\* diff = next(best.iterDiffs()): StopIteration (prune under --delete, then
\* break), a missing diff (raise), or the diff to send.
Pick ==
    /\ pc = "pick"
    /\ IF best = <<>>
       THEN /\ IF args.delete THEN deleteUnused
               ELSE UNCHANGED <<dstVols, log>>
            /\ Return(0)
            /\ UNCHANGED chosen
       ELSE LET diff == best[1]
            IN IF diff = NoDiff
               THEN /\ HandleException
                    /\ log' = [log EXCEPT !.missingDiff = TRUE]
                    /\ UNCHANGED <<dstVols, chosen>>
               ELSE /\ chosen' = diff
                    /\ pc' = "send"
                    /\ UNCHANGED <<dstVols, exitStatus, held, events, log>>
    /\ UNCHANGED <<args, stderrTty, srcVols, edges, round, source, dest,
                   volumes, destVolumes, best, xfers>>

\* Faulty variant: an error of the prune is caught, reported and the loop left.
PruneRaiseCaught ==
    /\ pc = "pick"
    /\ best = <<>>
    /\ args.delete /\ ~args.dry_run
    /\ \E gone \in SUBSET unusedVolumes(volumes, destVolumes) :
          /\ gone # unusedVolumes(volumes, destVolumes)
          /\ dstVols' = dstVols \ gone
    /\ log' = [log EXCEPT !.pruned = @ + 1, !.pruneFailed = TRUE,
                          !.destructive = @ \cup {[op |-> "deleteUnused",
                                                   mode |-> dest.mode]}]
    /\ Return(0)
    /\ UNCHANGED <<args, stderrTty, srcVols, edges, round, source, dest,
                   volumes, destVolumes, best, chosen, xfers>>

\* dest.deleteUnused() raising while it deletes: some of the unused volumes
\* are gone, the error reaches main's handler.
PruneRaise ==
    /\ pc = "pick"
    /\ best = <<>>
    /\ args.delete /\ ~args.dry_run
    /\ \E gone \in SUBSET unusedVolumes(volumes, destVolumes) :
          /\ gone # unusedVolumes(volumes, destVolumes)
          /\ dstVols' = dstVols \ gone
    /\ log' = [log EXCEPT !.pruned = @ + 1, !.pruneFailed = TRUE,
                          !.destructive = @ \cup {[op |-> "deleteUnused",
                                                   mode |-> dest.mode]}]
    /\ HandleException
    /\ UNCHANGED <<args, stderrTty, srcVols, edges, round, source, dest,
                   volumes, destVolumes, best, chosen, xfers>>

\* The record of a started transfer.
Xfer(ok) ==
    [round |-> round, from |-> chosen.from, to |-> chosen.to,
     size |-> chosen.size, listedAfter |-> log.listedAfter, dstBefore |-> dstVols, ok |-> ok]

\* Faulty variant: after a transfer the next diff is sent from the same plan.
SendOKSamePlan ==
    /\ pc = "send"
    /\ xfers' = Append(xfers, Xfer(TRUE))
    /\ dstVols' = IF args.dry_run THEN dstVols ELSE dstVols \cup {chosen.to}
    /\ Len(xfers) < MaxRound
    /\ UNCHANGED <<args, stderrTty, srcVols, edges, pc, round, source, dest,
                   held, events, volumes, destVolumes, best, chosen,
                   exitStatus, log>>

\* diff.sendTo(dest, ...) returning normally: outside dry-run the volume is
\* now on the destination; both `with` blocks are left and the loop goes on.
SendOK ==
    /\ pc = "send"
    /\ xfers' = Append(xfers, Xfer(TRUE))
    /\ dstVols' = IF args.dry_run THEN dstVols ELSE dstVols \cup {chosen.to}
    /\ held' = <<>>
    /\ events' = events \o WithExit(held)
    /\ pc' = "loop"
    /\ UNCHANGED <<args, stderrTty, srcVols, edges, round, source, dest,
                   volumes, destVolumes, best, chosen, exitStatus, log>>

\* Faulty variant: a transient error sends the driver back to the same diff, three
\* times at most.
SendRaiseRetry ==
    /\ pc = "send"
    /\ ~args.dry_run
    /\ \E kind \in {"transient", "fatal"} :
          /\ log' = [log EXCEPT !.sendFailed = @ + 1, !.sendError = kind]
          /\ IF kind = "transient" /\ log.sendFailed < 3
             THEN UNCHANGED <<pc, exitStatus, held, events>>
             ELSE HandleException
    /\ xfers' = Append(xfers, Xfer(FALSE))
    /\ UNCHANGED <<args, stderrTty, srcVols, dstVols, edges, round, source,
                   dest, volumes, destVolumes, best, chosen>>

\* diff.sendTo(dest, ...) raising, whatever the kind of error.
SendRaise ==
    /\ pc = "send"
    /\ ~args.dry_run
    /\ \E kind \in {"transient", "fatal"} :
          log' = [log EXCEPT !.sendFailed = @ + 1, !.sendError = kind]
    /\ xfers' = Append(xfers, Xfer(FALSE))
    /\ HandleException
    /\ UNCHANGED <<args, stderrTty, srcVols, dstVols, edges, round, source,
                   dest, volumes, destVolumes, best, chosen>>

Next ==
    \/ BeginRound
    \/ EnterSource
    \/ DeletePartialsRaise
    \/ PlanBest
    \/ PlanLatest
    \/ Pick
    \/ PruneRaise
    \/ SendOK
    \/ SendRaise

Spec == Init /\ [][Next]_vars

(***************************************************************************)
(* Properties.                                                             *)
(***************************************************************************)
SyncMode == args.source # NoUri

Done == pc = "done"

\* The source volumes the run selects (not excluded).
Selected == filterVolumes(srcVols)

\* C1: whenever the driver starts a transfer, in any round and any estimate
\* mode, the diff's parent is None (full send) or on the destination.
C1_ParentResident ==
    /\ pc = "send" => chosen.from = None \/ chosen.from \in dstVols
    /\ \A i \in 1..Len(xfers) :
          xfers[i].from = None \/ xfers[i].from \in xfers[i].dstBefore

\* An incremental diff is sent in a later round, from a parent on the
\* destination.
C1_Witness ==
    /\ Len(xfers) >= 2
    /\ xfers[2].round >= 2
    /\ xfers[2].from # None
    /\ xfers[2].from \in xfers[2].dstBefore

\* C2: a round performs at most one transfer, and the plan (and listing) a
\* transfer was chosen from was made after the previous transfer completed;
\* no plan serves two transfers.
C2_FreshPlanPerTransfer ==
    /\ \A i \in 1..Len(xfers) : xfers[i].listedAfter = i - 1
    /\ \A i, j \in 1..Len(xfers) : i < j => xfers[i].round < xfers[j].round

\* Two transfers were made, in two rounds.
C2_Witness ==
    /\ Len(xfers) >= 2
    /\ xfers[1].ok /\ xfers[2].ok
    /\ ~args.dry_run

\* C3: in sync mode main returns 0 only if every selected source volume is
\* on the destination at exit.
C3_ZeroOnlyIfReplicated ==
    (Done /\ SyncMode /\ exitStatus = 0) => Selected \subseteq dstVols

\* A sync that transferred a volume and returned 0.
C3_Witness ==
    /\ Done /\ SyncMode /\ exitStatus = 0
    /\ Len(xfers) >= 1
    /\ ~args.dry_run
    /\ Selected \subseteq dstVols

C5_RetryAsStated ==
    (log.sendError = "transient" /\ log.sendFailed = 1)
        => ~(Done /\ exitStatus = 1)

\* C5 amended: a transfer that raises, transient or not, ends the run at
\* once with status 1; the diff is never retried.
C5_NoRetry ==
    log.sendFailed >= 1
        => /\ log.sendFailed = 1
           /\ Done /\ exitStatus = 1
           /\ ~xfers[Len(xfers)].ok
           /\ \A i \in 1..(Len(xfers) - 1) : xfers[i].ok

\* A transient error ended a run that had already transferred a volume.
C5_Witness ==
    /\ log.sendError = "transient"
    /\ Done
    /\ Len(xfers) >= 2

\* Cost of a selected volume over the destination as it is now.
Reachable(v) == analyze(volumes, dstVols)[v] < Infinity

\* C6 as stated: a run that met a missing diff has transferred every
\* reachable source volume before it exits.
C6_ReachableAllSentAsStated ==
    (Done /\ log.missingDiff)
        => \A v \in volumes : Reachable(v) => v \in dstVols

\* C6 amended: when the first diff the planner yields is missing, the run
\* ends in that round with status 1 and starts no transfer in it; volumes
\* are transferred only in the rounds before.
C6_MissingDiffEndsRun ==
    log.missingDiff
        => /\ Done /\ exitStatus = 1
           /\ best = <<NoDiff>>
           /\ \A i \in 1..Len(xfers) : xfers[i].round < round /\ xfers[i].ok

\* A missing diff ended a run that had transferred a volume in an earlier
\* round.
C6_Witness ==
    /\ log.missingDiff
    /\ Done
    /\ Len(xfers) >= 1

\* C7: the prune is invoked at most once, only when the plan has no diff
\* left, never in a run with a failed transfer or a missing diff, and no
\* transfer starts after it.
C7_PruneOnlyAtEnd ==
    /\ log.pruned <= 1
    /\ log.pruned = 1
          => /\ Done
             /\ best = <<>> /\ Pending(volumes, destVolumes) = {}
             /\ log.sendFailed = 0 /\ ~log.missingDiff
             /\ \A i \in 1..Len(xfers) : xfers[i].round < round

\* The prune ran after a transfer of an earlier round.
C7_Witness ==
    /\ log.pruned = 1
    /\ Len(xfers) >= 1
    /\ ~args.dry_run

\* C8: with --delete, a sync that returns 0 has run the prune, in every
\* estimate mode.
C8_DeleteAlwaysPrunes ==
    (Done /\ SyncMode /\ args.delete /\ exitStatus = 0) => log.pruned >= 1

\* C9 as stated: the status is 0 after all transfers succeeded, whether or
\* not the prune raised.
C9_PruneErrorIgnoredAsStated ==
    (Done /\ log.pruneFailed /\ log.sendFailed = 0) => exitStatus = 0

\* C9 amended: an error raised by the prune reaches main's handler and the
\* run ends with status 1; the status is 0 when the prune returns normally.
C9_PruneErrorFailsRun ==
    /\ log.pruneFailed => Done /\ exitStatus = 1
    /\ (log.pruned = 1 /\ ~log.pruneFailed) => Done /\ exitStatus = 0

\* The prune raised after every transfer had succeeded.
C9_Witness ==
    /\ log.pruneFailed
    /\ Len(xfers) >= 1
    /\ \A i \in 1..Len(xfers) : xfers[i].ok

\* C10: deleteUnused and deletePartials are invoked only on a store opened
\* in mode 'w'.
C10_DestructiveOnlyInWriteMode ==
    \A d \in log.destructive : d.mode = "w"


\* The event that releases what the event e acquired.
ExitOf(e) == [e EXCEPT !.ev = "exit"]

\* C11: on every exit path of main (return 0, return 1, or an exception while
\* listing, planning, transferring or pruning) every store acquired in any
\* round has been released when main returns, and within a round the
\* destination is released before the source.
C11_AllReleasedDestFirst ==
    /\ Done =>
          /\ held = <<>>
          /\ \A i \in DOMAIN events :
                events[i].ev = "enter" =>
                   \E j \in (i + 1)..Len(events) : events[j] = ExitOf(events[i])
    /\ \A i \in DOMAIN events :
          (events[i].ev = "exit" /\ events[i].uri = "dst" /\ SyncMode) =>
             /\ i < Len(events)
             /\ events[i + 1] = [events[i] EXCEPT !.uri = "src"]
             /\ \A j \in 1..i : events[j] # events[i + 1]

\* A transfer of the second round raised: both stores were acquired twice and
\* released twice.
C11_Witness ==
    /\ Done /\ exitStatus = 1 /\ log.sendFailed > 0
    /\ round = 2 /\ Len(events) = 8

\* The selected source volumes the destination lacked when the run began.
MissingAtStart == Selected \ log.dst0

\* C12: a dry run with a source volume missing from the destination leaves
\* the destination's volumes unchanged, walks the rounds of the real run (one
\* per missing volume and a last one that finds nothing to do) and ends with
\* status 0 once it has shown a transfer.
C12_DryRunTerminatesWithZero ==
    (SyncMode /\ args.dry_run /\ MissingAtStart # {}) =>
       /\ dstVols = log.dst0
       /\ round <= Cardinality(MissingAtStart) + 1
       /\ (Done /\ xfers # <<>>) => exitStatus = 0

(***************************************************************************)
(* A second sync process on the same destination.                          *)
(***************************************************************************)
\* The advisory lock of the destination: held by main while the store opened
\* in mode 'a' or 'w' is inside its `with` block.
DestLocked ==
    \E i \in DOMAIN held : held[i].uri = "dst" /\ held[i].mode \in {"a", "w"}

\* A round of another sync process on the same destination, tried between two
\* rounds of main or while main works on the destination: it needs the lock
\* of the destination.
OtherRound ==
    /\ pc \in {"loop", "pick", "send"}
    /\ ~DestLocked
    /\ \A i \in DOMAIN events : events[i].ev # "other"
    /\ events' = Append(events, [ev |-> "other", uri |-> "dst", round |-> round])
    /\ UNCHANGED <<args, stderrTty, srcVols, dstVols, edges, pc, round, source,
                   dest, held, volumes, destVolumes, best, chosen, exitStatus,
                   xfers, log>>

NextConcurrent == Next \/ OtherRound

\* The runs the lock is studied on: no exclusion pattern, stderr a terminal.
InitConcurrent == Init /\ args.exclude = <<>> /\ stderrTty

SpecConcurrent == InitConcurrent /\ [][NextConcurrent]_vars

\* main has entered `with dest:` at least once.
DestEntered ==
    \E i \in DOMAIN events : events[i].ev = "enter" /\ events[i].uri = "dst"

C14_ListOnlyReturnsZero ==
    (~SyncMode /\ ~args.delete /\ log.dst0 # {} /\ Done) =>
       /\ exitStatus = 0
       /\ xfers = <<>>
       /\ dstVols = log.dst0
       /\ log.destructive = {}

(***************************************************************************)
(* The cost of what a run transfers.                                       *)
(***************************************************************************)
RECURSIVE TotalSize(_, _)
\* The summed size of the first n transfers of the run.
TotalSize(xs, n) == IF n = 0 THEN 0 ELSE TotalSize(xs, n - 1) + xs[n].size

\* The smallest diff that materialises v on a destination holding `resident`
\* (a full send or an incremental from a resident volume), Infinity if none.
CheapestInto(v, resident) ==
    Min({Infinity} \cup
        {e.size : e \in {x \in edges : /\ x.to = v
                                       /\ (x.from = None \/ x.from \in resident)}})

RECURSIVE SequenceCost(_, _, _)
\* The cost of sending the volumes p[1..n] in this order onto a destination
\* that held dst0, each by the smallest diff then available.
SequenceCost(p, n, dst0) ==
    IF n = 0 THEN 0
    ELSE LET rest == SequenceCost(p, n - 1, dst0)
             step == CheapestInto(p[n], dst0 \cup {p[i] : i \in 1..(n - 1)})
         IN IF rest >= Infinity \/ step >= Infinity THEN Infinity
            ELSE rest + step

\* The orders in which the volumes of S can be sent.
Orderings(S) == {p \in Paths(S) : Len(p) = Cardinality(S)}

C16_RoundsBoundedByMissing ==
    (SyncMode /\ ~args.dry_run) =>
       /\ \A i \in 1..Len(xfers) :
             /\ xfers[i].round = i
             /\ xfers[i].to \in MissingAtStart
             /\ xfers[i].to \notin xfers[i].dstBefore
             /\ xfers[i].dstBefore = log.dst0 \cup {xfers[j].to : j \in 1..(i - 1)}
       /\ round <= Len(xfers) + 1
       /\ round <= Cardinality(MissingAtStart) + 1
       /\ pc = "loop" => round <= Cardinality(MissingAtStart) /\ round < MaxRound

\* A run that found two volumes missing ends in its third round, having
\* transferred both.
C16_Witness ==
    /\ SyncMode /\ ~args.dry_run /\ Done /\ exitStatus = 0
    /\ Cardinality(MissingAtStart) = 2
    /\ Len(xfers) = 2 /\ round = 3

\* The store main calls `source` (the lone <dst> in list-only mode) holds no
\* volume.
SourceEmpty == IF SyncMode THEN srcVols = {} ELSE log.dst0 = {}

\* C17: with no volume in the source store main returns 1 in its first
\* round, never enters the destination store, and transfers and deletes
\* nothing on either store.
C17_EmptySourceFailsFirst ==
    SourceEmpty =>
       /\ round <= 1
       /\ pc \in {"loop", "withSource", "done"}
       /\ pc = "loop" => round = 0
       /\ Done => exitStatus = 1
       /\ SyncMode => ~DestEntered
       /\ xfers = <<>>
       /\ log.pruned = 0 /\ log.destructive = {}
       /\ dstVols = log.dst0

\* A sync from an empty source towards a destination that holds volumes,
\* with --delete, has returned 1.
C17_Witness ==
    /\ SyncMode /\ srcVols = {} /\ dstVols # {} /\ args.delete
    /\ Done /\ exitStatus = 1 /\ round = 1
    /\ events = <<[ev |-> "enter", uri |-> "src", round |-> 1],
                  [ev |-> "exit", uri |-> "src", round |-> 1]>>

(***************************************************************************)
(* The branch without planner, as seen from the transfers.                 *)
(***************************************************************************)
\* The selected source volumes on a destination holding dv.
CommonWith(dv) == Selected \cap dv

\* The selected source volumes a destination holding dv lacks.
MissingFrom(dv) == Selected \ dv

\* p is a latest-created volume among those of CommonWith(dv).
IsLatestCommon(p, dv) ==
    /\ p \in CommonWith(dv)
    /\ \A w \in CommonWith(dv) : otime(w) <= otime(p)

\* The diffs the source offers from p to volumes a destination holding dv
\* lacks.
OfferedFrom(p, dv) == {e \in edges : e.from = p /\ e.to \in MissingFrom(dv)}

PathMatchesPattern(v) ==
    \E path \in getPaths(v) :
        \E pattern \in {args.exclude[i] : i \in DOMAIN args.exclude} :
            /\ Len(pattern) <= Len(path)
            /\ SubSeq(path, 1, Len(pattern)) = pattern

\* C19: the volumes main plans over are the source volumes none of whose
\* paths matches any exclude pattern, and no volume with a matching path is
\* the target of a transfer, in any round and any estimate mode.
C19_ExcludedNeverSent ==
    /\ pc \in {"pick", "send"} =>
          volumes = {v \in srcVols : ~PathMatchesPattern(v)}
    /\ pc = "send" => ~PathMatchesPattern(chosen.to)
    /\ \A i \in 1..Len(xfers) : ~PathMatchesPattern(xfers[i].to)

\* With two patterns, of which one matches the second path of volume 2, the
\* run has sent volume 1 only and returned 0.
C19_Witness ==
    /\ Len(args.exclude) = 2 /\ srcVols = {1, 2}
    /\ PathMatchesPattern(2) /\ ~PathMatchesPattern(1)
    /\ Done /\ exitStatus = 0 /\ ~args.dry_run
    /\ Len(xfers) = 1 /\ xfers[1].to = 1 /\ 2 \notin dstVols

====
